---- MODULE Spec2Model ----
(***************************************************************************)
(* Model of the instrument-creation core of the metrics SDK                *)
(* (opentelemetry-sdk/src/metrics/meter.rs): SdkMeter, its sixteen         *)
(* creation operations, the name/unit validator and the validation policy, *)
(* together with the collaborators the meter drives: the per-type          *)
(* resolvers, the callback list of the pipelines (collection scheduler),   *)
(* the measurement sinks and the process-wide error handler; and of the    *)
(* conversions into the error enum of the log SDK                          *)
(* (opentelemetry-sdk/src/logs/error.rs).                                  *)
(*                                                                         *)
(* Strings are sequences of characters.  A character is named by a model   *)
(* string; the characters of the model are a sample of Unicode that holds  *)
(* every class the validator distinguishes, non-ASCII characters of two    *)
(* and three UTF-8 bytes included.                                         *)
(***************************************************************************)
EXTENDS Integers, Sequences, FiniteSets, TLC

VARIABLES
    validation_policy,  \* SdkMeter.validation_policy
    scope,              \* SdkMeter.scope
    nrecords,           \* the number of record/observe calls made on handles
    args,               \* the arguments of the creation call the caller is about to make
    ret,                \* the most recent operation and what it returned
    lookups,            \* the resolver consultations made by the most recent operation
    handled,            \* the errors handed to global::handle_error so far
    callbacks,          \* the closures registered with the pipelines, in registration order
    observables,        \* the Arc<Observable> allocations: measures and strong count
    handles,            \* the instrument handles the caller still holds
    recorded,           \* per sink, the values it has received, in order
    history,            \* per creation call so far: what was asked and what was resolved
    shutdown,           \* the collection scheduler has been shut down
    passes,             \* the number of collection passes performed
    threads,            \* per thread calling the shared meter: where its creation call stands
    err,                \* the value handed to LogError::from
    log_error           \* the LogError the conversion returned

vars == <<validation_policy, scope, nrecords, args, ret, lookups, handled, callbacks,
          observables, handles, recorded, history, shutdown, passes, threads,
          err, log_error>>

\* What the operations of the meter used from one thread leave alone.
elsewhere == <<threads, err, log_error>>

-----------------------------------------------------------------------------
(* Program constants                                                       *)

INSTRUMENT_NAME_MAX_LENGTH == 255
INSTRUMENT_UNIT_NAME_MAX_LENGTH == 63
INSTRUMENT_NAME_ALLOWED_NON_ALPHANUMERIC_CHARS == {"_", ".", "-", "/"}

INSTRUMENT_NAME_EMPTY == "instrument name must be non-empty"
INSTRUMENT_NAME_LENGTH == "instrument name must be less than 256 characters"
INSTRUMENT_NAME_INVALID_CHAR == "characters in instrument name must be ASCII and belong to the alphanumeric characters, '_', '.', '-' and '/'"
INSTRUMENT_NAME_FIRST_ALPHABETIC == "instrument name must start with an alphabetic character"
INSTRUMENT_UNIT_LENGTH == "instrument unit must be less than 64 characters"
INSTRUMENT_UNIT_INVALID_CHAR == "characters in instrument unit must be ASCII"

HandleGlobalAndIgnore == "HandleGlobalAndIgnore"
Strict == "Strict"
InstrumentValidationPolicy == {HandleGlobalAndIgnore, Strict}

-----------------------------------------------------------------------------
(* Bounds of the model                                                     *)

ShortLen == 2       \* short names: every string of at most this many characters
Slack == 2          \* long strings: padded to within Slack of the maximum length
MaxCalls == 2       \* creation calls per behaviour
MaxPasses == 2      \* collection passes per behaviour
MaxRecords == 1     \* record and observe calls on handles per behaviour
NumSinks == 2       \* measurement sinks the resolvers can hand out
MaxCallbacks == 2   \* callbacks supplied to one observable creation call
MaxValue == 1       \* values recorded or observed through a handle are 1..MaxValue
NumThreads == 2     \* threads that call the shared meter concurrently
MaxMsgLen == 2      \* messages converted into LogError

-----------------------------------------------------------------------------
(* Characters and strings                                                  *)

AsciiAlphabeticChars == {"a", "Z"}
AsciiDigitChars == {"7"}
OtherAsciiChars == {" ", "%"}
TwoByteChars == {"U+00E9"}
ThreeByteChars == {"U+9508"}
Chars == AsciiAlphabeticChars \cup AsciiDigitChars
            \cup INSTRUMENT_NAME_ALLOWED_NON_ALPHANUMERIC_CHARS
            \cup OtherAsciiChars \cup TwoByteChars \cup ThreeByteChars

is_ascii(c) == c \notin TwoByteChars \cup ThreeByteChars
is_ascii_alphabetic(c) == c \in AsciiAlphabeticChars
is_ascii_alphanumeric(c) == c \in AsciiAlphabeticChars \cup AsciiDigitChars

\* str::len: the length of the string in bytes of its UTF-8 encoding (one
\* byte per ASCII character, two or three for the others)
str_len(s) ==
    Len(s) + Cardinality({i \in DOMAIN s : s[i] \in TwoByteChars})
           + 2 * Cardinality({i \in DOMAIN s : s[i] \in ThreeByteChars})

\* Option<T>
None == [some |-> FALSE]
Some(x) == [some |-> TRUE, val |-> x]
unwrap_or_default(o) == IF o.some THEN o.val ELSE <<>>

\* Result<T, MetricsError>
Ok(x) == [ok |-> TRUE, val |-> x]
Err(e) == [ok |-> FALSE, err |-> e]
Unit == "()"
InvalidInstrumentConfiguration(msg) ==
    [variant |-> "InvalidInstrumentConfiguration", msg |-> msg]

-----------------------------------------------------------------------------
(* Validator                                                               *)

\* Variants of the validator with a fault seeded, for mutation checks.
validate_instrument_name_ge(name) ==
    IF str_len(name) = 0
      THEN Err(InvalidInstrumentConfiguration(INSTRUMENT_NAME_EMPTY))
    ELSE IF str_len(name) >= INSTRUMENT_NAME_MAX_LENGTH
      THEN Err(InvalidInstrumentConfiguration(INSTRUMENT_NAME_LENGTH))
    ELSE IF ~is_ascii_alphabetic(name[1])
      THEN Err(InvalidInstrumentConfiguration(INSTRUMENT_NAME_FIRST_ALPHABETIC))
    ELSE IF \E i \in DOMAIN name :
                /\ ~is_ascii_alphanumeric(name[i])
                /\ name[i] \notin INSTRUMENT_NAME_ALLOWED_NON_ALPHANUMERIC_CHARS
      THEN Err(InvalidInstrumentConfiguration(INSTRUMENT_NAME_INVALID_CHAR))
    ELSE Ok(Unit)

validate_instrument_name(name) ==
    IF str_len(name) = 0
      THEN Err(InvalidInstrumentConfiguration(INSTRUMENT_NAME_EMPTY))
    ELSE IF str_len(name) > INSTRUMENT_NAME_MAX_LENGTH
      THEN Err(InvalidInstrumentConfiguration(INSTRUMENT_NAME_LENGTH))
    ELSE IF ~is_ascii_alphabetic(name[1])
      THEN Err(InvalidInstrumentConfiguration(INSTRUMENT_NAME_FIRST_ALPHABETIC))
    ELSE IF \E i \in DOMAIN name :
                /\ ~is_ascii_alphanumeric(name[i])
                /\ name[i] \notin INSTRUMENT_NAME_ALLOWED_NON_ALPHANUMERIC_CHARS
      THEN Err(InvalidInstrumentConfiguration(INSTRUMENT_NAME_INVALID_CHAR))
    ELSE Ok(Unit)

validate_instrument_unit_ge(unit) ==
    IF unit.some /\ str_len(unit.val) >= INSTRUMENT_UNIT_NAME_MAX_LENGTH
      THEN Err(InvalidInstrumentConfiguration(INSTRUMENT_UNIT_LENGTH))
    ELSE IF unit.some /\ \E i \in DOMAIN unit.val : ~is_ascii(unit.val[i])
      THEN Err(InvalidInstrumentConfiguration(INSTRUMENT_UNIT_INVALID_CHAR))
    ELSE Ok(Unit)

validate_instrument_unit(unit) ==
    IF unit.some /\ str_len(unit.val) > INSTRUMENT_UNIT_NAME_MAX_LENGTH
      THEN Err(InvalidInstrumentConfiguration(INSTRUMENT_UNIT_LENGTH))
    ELSE IF unit.some /\ \E i \in DOMAIN unit.val : ~is_ascii(unit.val[i])
      THEN Err(InvalidInstrumentConfiguration(INSTRUMENT_UNIT_INVALID_CHAR))
    ELSE Ok(Unit)

\* validate_instrument_name(name).and_then(|_| validate_instrument_unit(unit))
validate_name_and_then_unit(name, unit) ==
    IF validate_instrument_name(name).ok
      THEN validate_instrument_unit(unit)
      ELSE validate_instrument_name(name)

validate_instrument_config_strict_reports(name, unit, policy) ==
    LET v == validate_name_and_then_unit(name, unit) IN
    IF v.ok THEN [result |-> Ok(Unit), reports |-> <<>>]
    ELSE [result |-> Err(v.err), reports |-> <<v.err>>]

\* The result returned to the creation operation, and the errors the call
\* hands to global::handle_error.
validate_instrument_config(name, unit, policy) ==
    LET v == validate_name_and_then_unit(name, unit) IN
    IF v.ok THEN [result |-> Ok(Unit), reports |-> <<>>]
    ELSE IF policy = HandleGlobalAndIgnore
      THEN [result |-> Ok(Unit), reports |-> <<v.err>>]
      ELSE [result |-> Err(v.err), reports |-> <<>>]

-----------------------------------------------------------------------------
(* Collaborators: resolvers, sinks, scheduler, error handler               *)

Sinks == 1..NumSinks
Values == 1..MaxValue

\* The sinks of a set, as the list the resolver returns (pipeline order).
RECURSIVE SinkList(_)
SinkList(S) ==
    IF S = {} THEN <<>>
    ELSE LET m == CHOOSE x \in S : \A y \in S : x <= y
         IN <<m>> \o SinkList(S \ {m})

SinkLists == {SinkList(S) : S \in SUBSET Sinks}

ResolverError == [variant |-> "Other", msg |-> "resolver failed"]

\* What Resolver<T>::measures can return: Err, or the (possibly empty) sink list.
ResolverOutcomes == {Ok(l) : l \in SinkLists} \cup {Err(ResolverError)}

\* A variant of the descriptor with a fault seeded, for mutation checks: the
\* default scope in place of the meter's.
Instrument_default_scope(kind, name, description, unit) ==
    [name |-> name,
     description |-> unwrap_or_default(description),
     unit |-> unwrap_or_default(unit),
     kind |-> Some(kind),
     scope |-> [name |-> ""]]

\* Instrument { name, description, unit, kind, scope }
Instrument(kind, name, description, unit) ==
    [name |-> name,
     description |-> unwrap_or_default(description),
     unit |-> unwrap_or_default(unit),
     kind |-> Some(kind),
     scope |-> scope]

\* InstrumentResolver::measures: the consultation of the resolver of numeric
\* type T with the descriptor built from the arguments.
InstrumentResolver_measures(T, kind, name, description, unit) ==
    [resolver |-> T, inst |-> Instrument(kind, name, description, unit)]

\* Instrument handles.
ResolvedMeasures(id, measures) ==
    [id |-> id, type |-> "ResolvedMeasures", measures |-> measures, inst |-> 0]
NoopAsyncInstrument(id) ==
    [id |-> id, type |-> "NoopAsyncInstrument", measures |-> <<>>, inst |-> 0]
ObservableHandle(id) ==
    [id |-> id, type |-> "Observable", measures |-> <<>>, inst |-> id]

\* Pipelines::register_callback: the closure joins the scheduler's callback list.
register_callback(list, closure) == Append(list, closure)

\* move || callback(cb_inst.as_ref()): a closure owning one reference to the
\* observable and the user callback; invoked counts its invocations.
Closure(inst, callback) == [inst |-> inst, callback |-> callback, invoked |-> 0]

NoArgs == [shape |-> "none", name |-> <<>>, description |-> None, unit |-> None,
           callbacks |-> <<>>]
SyncArgs(name, description, unit) ==
    [shape |-> "sync", name |-> name, description |-> description, unit |-> unit,
     callbacks |-> <<>>]
ObservableArgs(name, description, unit, cbs) ==
    [shape |-> "observable", name |-> name, description |-> description,
     unit |-> unit, callbacks |-> cbs]
NoResult == [op |-> "none", args |-> NoArgs, on |-> 0, result |-> Ok(Unit)]

\* Measure::call on every sink of the list, in list order.
RECURSIVE FanOut(_, _, _)
FanOut(rec, measures, v) ==
    IF measures = <<>> THEN rec
    ELSE FanOut([rec EXCEPT ![Head(measures)] = Append(@, v)], Tail(measures), v)

-----------------------------------------------------------------------------
(* The creation operations of SdkMeter                                     *)

\* for callback in callbacks { let cb_inst = Arc::clone(&observable);
\*     self.pipes.register_callback(move || callback(cb_inst.as_ref())); }
RECURSIVE register_loop(_, _, _)
register_loop(list, id, cbs) ==
    IF cbs = <<>> THEN list
    ELSE register_loop(register_callback(list, Closure(id, Head(cbs))), id, Tail(cbs))

\* Variants of the registration loop with a fault seeded, for mutation checks.
register_callbacks_first_only(id, ms, cbs) ==
    [callbacks |-> register_loop(callbacks, id, IF cbs = <<>> THEN <<>> ELSE <<cbs[1]>>),
     strong |-> IF cbs = <<>> THEN 1 ELSE 2,
     recorded |-> recorded]

register_callbacks_replacing(id, ms, cbs) ==
    [callbacks |-> register_loop(<<>>, id, cbs),
     strong |-> 1 + Len(cbs),
     recorded |-> recorded]

RECURSIVE call_now(_, _, _)
call_now(rec, measures, cbs) ==
    IF cbs = <<>> THEN rec
    ELSE call_now(FanOut(rec, measures, Head(cbs)), measures, Tail(cbs))

register_callbacks_eager(id, ms, cbs) ==
    [callbacks |-> register_loop(callbacks, id, cbs),
     strong |-> 1 + Len(cbs),
     recorded |-> call_now(recorded, ms, cbs)]

\* The loop's effect: the scheduler's callback list after it, the strong count
\* of the observable after it (the local `observable` plus one clone per
\* closure), and the sinks, which it does not touch.
register_callbacks(id, ms, cbs) ==
    [callbacks |-> register_loop(callbacks, id, cbs),
     strong |-> 1 + Len(cbs),
     recorded |-> recorded]

\* InstrumentResolver::lookup: the resolved measures wrapped, or the error.
lookup_err_on_empty(id, out) ==
    IF out.ok /\ out.val # <<>> THEN Ok(ResolvedMeasures(id, out.val))
    ELSE Err(ResolverError)

InstrumentResolver_lookup(id, out) ==
    IF out.ok THEN Ok(ResolvedMeasures(id, out.val)) ELSE Err(out.err)

Rejected(a, observable, v) ==
    [result |-> Err(v.result.err), lookups |-> <<>>, reports |-> v.reports,
     callbacks |-> callbacks, observables |-> observables, recorded |-> recorded,
     hist |-> [observable |-> observable, callbacks |-> a.callbacks,
               outcome |-> "rejected", measures |-> <<>>]]

\* The body shared by the seven synchronous creation operations: validate,
\* look up, wrap.  `out` is what the resolver returns if it is consulted.
synchronous_instrument(T, kind, a, out) ==
    LET v == validate_instrument_config(a.name, a.unit, validation_policy)
        id == Len(history) + 1
    IN  IF ~v.result.ok THEN Rejected(a, FALSE, v)
        ELSE [result |-> InstrumentResolver_lookup(id, out),
              lookups |-> <<InstrumentResolver_measures(T, kind, a.name,
                                                        a.description, a.unit)>>,
              reports |-> v.reports,
              callbacks |-> callbacks, observables |-> observables,
              recorded |-> recorded,
              hist |-> [observable |-> FALSE, callbacks |-> <<>>,
                        outcome |-> IF out.ok THEN "resolved" ELSE "failed",
                        measures |-> IF out.ok THEN out.val ELSE <<>>]]

\* observable_instrument without the is_empty early return.
observable_instrument_no_empty_check(T, kind, a, out) ==
    LET v == validate_instrument_config(a.name, a.unit, validation_policy)
        id == Len(history) + 1
        consult == <<InstrumentResolver_measures(T, kind, a.name, a.description, a.unit)>>
        hist == [observable |-> TRUE, callbacks |-> a.callbacks,
                 outcome |-> IF out.ok THEN "resolved" ELSE "failed",
                 measures |-> IF out.ok THEN out.val ELSE <<>>]
    IN  IF ~v.result.ok THEN Rejected(a, TRUE, v)
        ELSE IF ~out.ok
          THEN [result |-> Err(out.err), lookups |-> consult, reports |-> v.reports,
                callbacks |-> callbacks, observables |-> observables,
                recorded |-> recorded, hist |-> hist]
        ELSE [result |-> Ok(ObservableHandle(id)), lookups |-> consult,
              reports |-> v.reports,
              callbacks |-> register_loop(callbacks, id, a.callbacks),
              observables |-> observables @@
                    (id :> [measures |-> out.val, strong |-> 1 + Len(a.callbacks)]),
              recorded |-> recorded, hist |-> hist]

\* The body shared by the nine observable creation operations: validate,
\* resolve, return the no-op handle on an empty sink list, else allocate the
\* observable and register one closure per callback.
observable_instrument(T, kind, a, out) ==
    LET v == validate_instrument_config(a.name, a.unit, validation_policy)
        id == Len(history) + 1
        consult == <<InstrumentResolver_measures(T, kind, a.name, a.description, a.unit)>>
        hist == [observable |-> TRUE, callbacks |-> a.callbacks,
                 outcome |-> IF out.ok THEN "resolved" ELSE "failed",
                 measures |-> IF out.ok THEN out.val ELSE <<>>]
    IN  IF ~v.result.ok THEN Rejected(a, TRUE, v)
        ELSE IF ~out.ok
          THEN [result |-> Err(out.err), lookups |-> consult, reports |-> v.reports,
                callbacks |-> callbacks, observables |-> observables,
                recorded |-> recorded, hist |-> hist]
        ELSE IF out.val = <<>>
          THEN [result |-> Ok(NoopAsyncInstrument(id)), lookups |-> consult,
                reports |-> v.reports,
                callbacks |-> callbacks, observables |-> observables,
                recorded |-> recorded, hist |-> hist]
        ELSE LET reg == register_callbacks(id, out.val, a.callbacks)
             IN [result |-> Ok(ObservableHandle(id)), lookups |-> consult,
                 reports |-> v.reports,
                 callbacks |-> reg.callbacks,
                 observables |-> observables @@
                        (id :> [measures |-> out.val, strong |-> reg.strong]),
                 recorded |-> reg.recorded, hist |-> hist]

\* The state after a creation operation with effect e has returned.
Returned(op, e) ==
    /\ ret' = [op |-> op, args |-> args, on |-> 0, result |-> e.result]
    /\ lookups' = e.lookups
    /\ handled' = handled \o e.reports
    /\ callbacks' = e.callbacks
    /\ observables' = e.observables
    /\ recorded' = e.recorded
    /\ handles' = IF e.result.ok THEN handles \cup {e.result.val} ELSE handles
    /\ history' = Append(history, e.hist)
    /\ args' = NoArgs
    /\ UNCHANGED <<validation_policy, scope, nrecords, shutdown, passes>>
    /\ UNCHANGED elsewhere

u64_counter ==
    /\ args.shape = "sync"
    /\ \E out \in ResolverOutcomes :
          Returned("u64_counter",
                   synchronous_instrument("u64", "Counter", args, out))

f64_counter ==
    /\ args.shape = "sync"
    /\ \E out \in ResolverOutcomes :
          Returned("f64_counter",
                   synchronous_instrument("f64", "Counter", args, out))

u64_observable_counter ==
    /\ args.shape = "observable"
    /\ \E out \in ResolverOutcomes :
          Returned("u64_observable_counter",
                   observable_instrument("u64", "ObservableCounter", args, out))

f64_observable_counter ==
    /\ args.shape = "observable"
    /\ \E out \in ResolverOutcomes :
          Returned("f64_observable_counter",
                   observable_instrument("f64", "ObservableCounter", args, out))

i64_up_down_counter ==
    /\ args.shape = "sync"
    /\ \E out \in ResolverOutcomes :
          Returned("i64_up_down_counter",
                   synchronous_instrument("i64", "UpDownCounter", args, out))

f64_up_down_counter ==
    /\ args.shape = "sync"
    /\ \E out \in ResolverOutcomes :
          Returned("f64_up_down_counter",
                   synchronous_instrument("f64", "UpDownCounter", args, out))

i64_observable_up_down_counter ==
    /\ args.shape = "observable"
    /\ \E out \in ResolverOutcomes :
          Returned("i64_observable_up_down_counter",
                   observable_instrument("i64", "ObservableUpDownCounter", args, out))

f64_observable_up_down_counter ==
    /\ args.shape = "observable"
    /\ \E out \in ResolverOutcomes :
          Returned("f64_observable_up_down_counter",
                   observable_instrument("f64", "ObservableUpDownCounter", args, out))

u64_gauge ==
    /\ args.shape = "sync"
    /\ \E out \in ResolverOutcomes :
          Returned("u64_gauge",
                   synchronous_instrument("u64", "Gauge", args, out))

f64_gauge ==
    /\ args.shape = "sync"
    /\ \E out \in ResolverOutcomes :
          Returned("f64_gauge",
                   synchronous_instrument("f64", "Gauge", args, out))

i64_gauge ==
    /\ args.shape = "sync"
    /\ \E out \in ResolverOutcomes :
          Returned("i64_gauge",
                   synchronous_instrument("i64", "Gauge", args, out))

u64_observable_gauge ==
    /\ args.shape = "observable"
    /\ \E out \in ResolverOutcomes :
          Returned("u64_observable_gauge",
                   observable_instrument("u64", "ObservableGauge", args, out))

i64_observable_gauge ==
    /\ args.shape = "observable"
    /\ \E out \in ResolverOutcomes :
          Returned("i64_observable_gauge",
                   observable_instrument("i64", "ObservableGauge", args, out))

f64_observable_gauge ==
    /\ args.shape = "observable"
    /\ \E out \in ResolverOutcomes :
          Returned("f64_observable_gauge",
                   observable_instrument("f64", "ObservableGauge", args, out))

f64_histogram ==
    /\ args.shape = "sync"
    /\ \E out \in ResolverOutcomes :
          Returned("f64_histogram",
                   synchronous_instrument("f64", "Histogram", args, out))

u64_histogram ==
    /\ args.shape = "sync"
    /\ \E out \in ResolverOutcomes :
          Returned("u64_histogram",
                   synchronous_instrument("u64", "Histogram", args, out))

SyncOps == {"u64_counter", "f64_counter", "i64_up_down_counter", "f64_up_down_counter",
            "u64_gauge", "f64_gauge", "i64_gauge", "f64_histogram", "u64_histogram"}
ObservableOps == {"u64_observable_counter", "f64_observable_counter",
                  "i64_observable_up_down_counter", "f64_observable_up_down_counter",
                  "u64_observable_gauge", "i64_observable_gauge", "f64_observable_gauge"}
CreationOps == SyncOps \cup ObservableOps

Create ==
    \/ u64_counter
    \/ f64_counter
    \/ u64_observable_counter
    \/ f64_observable_counter
    \/ i64_up_down_counter
    \/ f64_up_down_counter
    \/ i64_observable_up_down_counter
    \/ f64_observable_up_down_counter
    \/ u64_gauge
    \/ f64_gauge
    \/ i64_gauge
    \/ u64_observable_gauge
    \/ i64_observable_gauge
    \/ f64_observable_gauge
    \/ f64_histogram
    \/ u64_histogram

-----------------------------------------------------------------------------
(* Handles, collection passes and scheduler shutdown                       *)

\* The closure registered at creation, invoked: callback(cb_inst.as_ref()).
\* User callback k performs one observe(k, attrs) on the capability it is
\* given; Observable::observe hands the value to every measure of the list.
closure_call(rec, c) == FanOut(rec, observables[c.inst].measures, c.callback)

RECURSIVE run_callbacks(_, _)
run_callbacks(rec, list) ==
    IF list = <<>> THEN rec
    ELSE run_callbacks(closure_call(rec, Head(list)), Tail(list))

\* One collection pass of the scheduler: every registered closure runs once,
\* in registration order.
Collect ==
    /\ args.shape = "none"
    /\ ~shutdown
    /\ passes < MaxPasses
    /\ recorded' = run_callbacks(recorded, callbacks)
    /\ callbacks' = [i \in DOMAIN callbacks |->
                        [callbacks[i] EXCEPT !.invoked = @ + 1]]
    /\ passes' = passes + 1
    /\ ret' = [op |-> "collect", args |-> NoArgs, on |-> 0, result |-> Ok(Unit)]
    /\ lookups' = <<>>
    /\ UNCHANGED <<validation_policy, scope, nrecords, args, handled, observables,
                   handles, history, shutdown>>
    /\ UNCHANGED elsewhere

\* Arc::drop n times: the strong count falls; at zero the Observable, and with
\* it its list of measures, is freed.
arc_drop(obs, id, n) ==
    IF id \notin DOMAIN obs THEN obs
    ELSE IF obs[id].strong - n <= 0
      THEN [obs EXCEPT ![id] = [measures |-> <<>>, strong |-> 0]]
      ELSE [obs EXCEPT ![id].strong = @ - n]

\* The caller drops an instrument handle.
Drop ==
    /\ args.shape = "none"
    /\ \E h \in handles :
          /\ handles' = handles \ {h}
          /\ observables' = IF h.type = "Observable"
                              THEN arc_drop(observables, h.inst, 1)
                              ELSE observables
          /\ ret' = [op |-> "drop", args |-> NoArgs, on |-> h.id, result |-> Ok(Unit)]
    /\ lookups' = <<>>
    /\ UNCHANGED <<validation_policy, scope, nrecords, args, handled, callbacks,
                   recorded, history, shutdown, passes>>
    /\ UNCHANGED elsewhere

\* record(value, attributes) on a synchronous handle: ResolvedMeasures hands
\* the value to every measure of its list.
Record ==
    /\ args.shape = "none"
    /\ nrecords < MaxRecords
    /\ \E h \in handles, v \in Values :
          /\ h.type = "ResolvedMeasures"
          /\ recorded' = FanOut(recorded, h.measures, v)
          /\ ret' = [op |-> "record", args |-> NoArgs, on |-> h.id, result |-> Ok(Unit)]
    /\ nrecords' = nrecords + 1
    /\ lookups' = <<>>
    /\ UNCHANGED <<validation_policy, scope, args, handled, callbacks, observables,
                   handles, history, shutdown, passes>>
    /\ UNCHANGED elsewhere

\* observe(value, attributes) on an observable handle held by the caller:
\* NoopAsyncInstrument ignores it, Observable hands it to its measures.
Observe ==
    /\ args.shape = "none"
    /\ nrecords < MaxRecords
    /\ \E h \in handles, v \in Values :
          /\ h.type \in {"NoopAsyncInstrument", "Observable"}
          /\ recorded' = IF h.type = "Observable"
                           THEN FanOut(recorded, observables[h.inst].measures, v)
                           ELSE recorded
          /\ ret' = [op |-> "observe", args |-> NoArgs, on |-> h.id, result |-> Ok(Unit)]
    /\ nrecords' = nrecords + 1
    /\ lookups' = <<>>
    /\ UNCHANGED <<validation_policy, scope, args, handled, callbacks, observables,
                   handles, history, shutdown, passes>>
    /\ UNCHANGED elsewhere

RECURSIVE drop_closures(_, _)
drop_closures(obs, list) ==
    IF list = <<>> THEN obs
    ELSE drop_closures(arc_drop(obs, Head(list).inst, 1), Tail(list))

\* Explicit shutdown of the collection scheduler: the registered closures are
\* dropped and no further pass runs.
Shutdown ==
    /\ args.shape = "none"
    /\ ~shutdown
    /\ shutdown' = TRUE
    /\ callbacks' = <<>>
    /\ observables' = drop_closures(observables, callbacks)
    /\ ret' = [op |-> "shutdown", args |-> NoArgs, on |-> 0, result |-> Ok(Unit)]
    /\ lookups' = <<>>
    /\ UNCHANGED <<validation_policy, scope, nrecords, args, handled, handles,
                   recorded, history, passes>>
    /\ UNCHANGED elsewhere

-----------------------------------------------------------------------------
(* Concurrent callers of one shared meter                                  *)

Threads == 1..NumThreads

\* A thread about to run a creation operation with the arguments a; the
\* operations differ in the resolver and the kind only, u64_counter and
\* u64_observable_counter stand for the synchronous and the observable ones.
Calling(a) ==
    [pc |-> "validate_instrument_config", args |-> a, ms |-> <<>>,
     pending |-> <<>>, result |-> Ok(Unit)]

\* The threads whose call is inside the registration loop.
InLoop == {u \in Threads : threads[u].pc = "register_callback"}

\* A variant of cb_inst with a fault seeded, for mutation checks: the
\* observable is taken from a slot the calls share.
cb_inst_shared(t) == CHOOSE u \in InLoop : \A w \in InLoop : u >= w

\* let cb_inst = Arc::clone(&observable): the observable of the thread's own
\* call, a local of that call.
cb_inst(t) == t

\* validate_instrument_config(name.as_ref(), &unit, self.validation_policy)?
thread_validate_instrument_config(t) ==
    /\ threads[t].pc = "validate_instrument_config"
    /\ LET v == validate_instrument_config(threads[t].args.name,
                                           threads[t].args.unit, validation_policy)
       IN  /\ handled' = handled \o v.reports
           /\ threads' = [threads EXCEPT ![t] =
                 IF v.result.ok
                   THEN [@ EXCEPT !.pc = "measures"]
                   ELSE [@ EXCEPT !.pc = "returned", !.result = Err(v.result.err)]]
    /\ UNCHANGED <<validation_policy, scope, nrecords, args, ret, lookups, callbacks,
                   observables, handles, recorded, history, shutdown, passes,
                   err, log_error>>

\* p.lookup(..) of a synchronous operation; p.measures(..)?, the is_empty
\* early return and Arc::new(Observable::new(ms)) of an observable one.
thread_measures(t) ==
    /\ threads[t].pc = "measures"
    /\ \E out \in ResolverOutcomes :
          LET observable == threads[t].args.shape = "observable"
              result == IF ~observable THEN InstrumentResolver_lookup(t, out)
                        ELSE IF ~out.ok THEN Err(out.err)
                        ELSE Ok(NoopAsyncInstrument(t))
              enters == observable /\ out.ok /\ out.val # <<>>
          IN  /\ threads' = [threads EXCEPT ![t] =
                    IF enters
                      THEN [@ EXCEPT !.pc = "register_callback", !.ms = out.val,
                                     !.pending = threads[t].args.callbacks]
                      ELSE [@ EXCEPT !.pc = "returned", !.result = result,
                                     !.ms = IF out.ok THEN out.val ELSE <<>>]]
              /\ observables' = IF enters
                                  THEN observables @@
                                         (t :> [measures |-> out.val, strong |-> 1])
                                  ELSE observables
              /\ handles' = IF ~enters /\ result.ok
                              THEN handles \cup {result.val} ELSE handles
    /\ UNCHANGED <<validation_policy, scope, nrecords, args, ret, lookups, handled,
                   callbacks, recorded, history, shutdown, passes, err, log_error>>

\* One iteration of the loop over the callbacks: the observable is cloned and
\* the closure registered with the pipelines, which serialise registrations.
thread_register_callback(t) ==
    /\ threads[t].pc = "register_callback"
    /\ threads[t].pending # <<>>
    /\ callbacks' = register_callback(callbacks,
                        Closure(cb_inst(t), Head(threads[t].pending)))
    /\ observables' = [observables EXCEPT ![cb_inst(t)].strong = @ + 1]
    /\ threads' = [threads EXCEPT ![t].pending = Tail(@)]
    /\ UNCHANGED <<validation_policy, scope, nrecords, args, ret, lookups, handled,
                   handles, recorded, history, shutdown, passes, err, log_error>>

\* Ok(ObservableCounter::new(observable))
thread_return(t) ==
    /\ threads[t].pc = "register_callback"
    /\ threads[t].pending = <<>>
    /\ threads' = [threads EXCEPT ![t] =
          [@ EXCEPT !.pc = "returned", !.result = Ok(ObservableHandle(t))]]
    /\ handles' = handles \cup {ObservableHandle(t)}
    /\ UNCHANGED <<validation_policy, scope, nrecords, args, ret, lookups, handled,
                   callbacks, observables, recorded, history, shutdown, passes,
                   err, log_error>>

-----------------------------------------------------------------------------
(* Conversions into LogError (logs/error.rs)                               *)

\* The variants of LogError.  Box::new moves its argument to the heap and
\* leaves the value as it is: a boxed payload is the value.
ExportFailed(e) == [variant |-> "ExportFailed", payload |-> e]
ExportTimedOut(d) == [variant |-> "ExportTimedOut", payload |-> d]
AlreadyShutdown(s) == [variant |-> "AlreadyShutdown", payload |-> s]
MutexPoisoned(s) == [variant |-> "MutexPoisoned", payload |-> s]
Other(e) == [variant |-> "Other", payload |-> e]
NoLogError == [variant |-> "none"]

\* The values the conversions take and build, each with its type.
String(text) == [type |-> "String", text |-> text]
StaticStr(text) == [type |-> "&'static str", text |-> text]
PoisonError(guard) == [type |-> "PoisonError", guard |-> guard]
ExportError(name, text) ==
    [type |-> "ExportError", exporter_name |-> name, text |-> text]
Custom(string) == [type |-> "Custom", string |-> string]
StringError(string) == [type |-> "StringError", string |-> string]
NoValue == [type |-> "none"]

\* The text PoisonError displays, whatever the guard; one piece of text that
\* the conversions never take apart.
POISON_ERROR_TEXT == <<"poisoned lock: another task failed inside">>

\* err_msg.into(): the String with the text of the &'static str.
str_into_String(s) == String(s.text)

\* String::into::<Box<dyn Error + Send + Sync>>(): the error whose Display is
\* the string.
String_into_Box_dyn_Error(s) == StringError(s)

\* ToString::to_string, through the Display of the value.
to_string(e) ==
    CASE e.type = "PoisonError" -> String(POISON_ERROR_TEXT)
      [] e.type = "Custom" -> String(e.string.text)
      [] e.type = "StringError" -> String(e.string.text)
      [] e.type = "ExportError" -> String(e.text)

\* The Display thiserror derives for the variants the conversions build.
LogError_to_string(l) ==
    CASE l.variant = "Other" -> to_string(l.payload)
      [] l.variant = "ExportFailed" ->
            String(<<"Exporter ">> \o to_string(l.payload).text
                   \o <<" encountered the following errors: ">>
                   \o <<l.payload.exporter_name>>)

\* impl<T: ExportError> From<T> for LogError
LogError_from_ExportError(e) == ExportFailed(e)

\* impl From<String> for LogError
LogError_from_String(err_msg) == Other(Custom(err_msg))

\* impl From<&'static str> for LogError
LogError_from_static_str(err_msg) == Other(Custom(str_into_String(err_msg)))

\* A variant of the conversion of PoisonError with a fault seeded, for
\* mutation checks.
LogError_from_PoisonError_as_MutexPoisoned(e) == MutexPoisoned(to_string(e))

\* impl<T> From<PoisonError<T>> for LogError
LogError_from_PoisonError(e) == Other(String_into_Box_dyn_Error(to_string(e)))

\* #[from] on Other: From<Box<dyn Error + Send + Sync + 'static>>
LogError_from_Box_dyn_Error(source) == Other(source)

\* The state after LogError::from(err) has returned l.
Converted(l) ==
    /\ log_error = NoLogError
    /\ log_error' = l
    /\ UNCHANGED <<validation_policy, scope, nrecords, args, ret, lookups, handled,
                   callbacks, observables, handles, recorded, history, shutdown,
                   passes, threads, err>>

From_ExportError ==
    /\ err.type = "ExportError"
    /\ Converted(LogError_from_ExportError(err))

From_String ==
    /\ err.type = "String"
    /\ Converted(LogError_from_String(err))

From_static_str ==
    /\ err.type = "&'static str"
    /\ Converted(LogError_from_static_str(err))

From_PoisonError ==
    /\ err.type = "PoisonError"
    /\ Converted(LogError_from_PoisonError(err))

From_Box_dyn_Error ==
    /\ err.type = "StringError"
    /\ Converted(LogError_from_Box_dyn_Error(err))

-----------------------------------------------------------------------------
(* Inputs                                                                  *)

Pad(c, n) == [i \in 1..n |-> c]

\* Every string of at most n characters.
StringsUpTo(n) == UNION {[1..k -> Chars] : k \in 0..n}

\* Strings around the length limit max: a run of "a" with any character, or
\* none, before and after it.
StringsAround(max) ==
    {h \o Pad("a", n) \o t : h \in StringsUpTo(1), t \in StringsUpTo(1),
                            n \in (max - Slack)..(max + 1)}

\* The callbacks 1..n, in order; callback k observes the value k.
CallbackLists == {[i \in 1..n |-> i] : n \in 0..MaxCallbacks}

RequestNames == {<<"a">>, <<"_", "a">>}
RequestUnits == {None, Some(<<"%">>), Some(<<"U+9508">>)}
RequestDescriptions == {None, Some(<<"Z">>)}

\* Every name with every unit, and a description with the valid ones.
RequestTriples ==
    {<<n, None, u>> : n \in RequestNames, u \in RequestUnits}
    \cup {<<n, d, None>> : n \in {<<"a">>}, d \in RequestDescriptions}

RequestArgs ==
    {SyncArgs(t[1], t[2], t[3]) : t \in RequestTriples}
    \cup {ObservableArgs(t[1], t[2], t[3], c) :
            t \in RequestTriples, c \in CallbackLists}

\* The caller prepares the arguments of its next creation call.
Request ==
    /\ args.shape = "none"
    /\ Len(history) < MaxCalls
    /\ args' \in RequestArgs
    /\ ret' = NoResult
    /\ lookups' = <<>>
    /\ UNCHANGED <<validation_policy, scope, nrecords, handled, callbacks,
                   observables, handles, recorded, history, shutdown, passes>>
    /\ UNCHANGED elsewhere

ValidateNames == StringsUpTo(ShortLen) \cup StringsAround(INSTRUMENT_NAME_MAX_LENGTH)
ValidateUnits ==
    {None} \cup {Some(u) : u \in StringsUpTo(1)
                                \cup StringsAround(INSTRUMENT_UNIT_NAME_MAX_LENGTH)}

ValidatePairs ==
    (ValidateNames \X {None})
    \cup ({<<"a">>} \X ValidateUnits)
    \cup ({<<>>, <<"7">>, <<"a", " ">>, <<"U+9508">>, Pad("a", INSTRUMENT_NAME_MAX_LENGTH + 1)}
            \X {Some(<<"U+00E9">>), Some(Pad("a", INSTRUMENT_UNIT_NAME_MAX_LENGTH + 1))})

ValidateArgs ==
    {SyncArgs(p[1], None, p[2]) : p \in ValidatePairs}
    \cup {ObservableArgs(p[1], None, p[2], <<>>) : p \in ValidatePairs}

\* The arguments of the calls made concurrently.
ConcurrentArgs ==
    {SyncArgs(<<"a">>, None, None),
     ObservableArgs(<<"_", "a">>, None, None, <<1>>)}
    \cup {ObservableArgs(<<"a">>, None, None, c) : c \in CallbackLists}

\* The values converted into LogError.
Messages == StringsUpTo(MaxMsgLen)
ExporterNames == {"otlp", "stdout"}
GuardTypes == {"MutexGuard", "RwLockWriteGuard"}
LogErrorSources ==
    {String(m) : m \in Messages}
    \cup {StaticStr(m) : m \in Messages}
    \cup {ExportError(n, m) : n \in ExporterNames, m \in Messages}
    \cup {PoisonError(g) : g \in GuardTypes}
    \cup {StringError(String(m)) : m \in Messages}

-----------------------------------------------------------------------------
(* Specifications                                                          *)

\* SdkMeter::new, optionally followed by with_validation_policy.
Constructed ==
    /\ validation_policy \in InstrumentValidationPolicy
    /\ scope = [name |-> "meter.scope"]
    /\ nrecords = 0
    /\ ret = NoResult
    /\ lookups = <<>>
    /\ handled = <<>>
    /\ callbacks = <<>>
    /\ observables = <<>>
    /\ handles = {}
    /\ recorded = [s \in Sinks |-> <<>>]
    /\ history = <<>>
    /\ shutdown = FALSE
    /\ passes = 0

\* One caller at a time, and no conversion into LogError under way.
Alone == threads = <<>> /\ err = NoValue /\ log_error = NoLogError

Init == Constructed /\ args = NoArgs /\ Alone

Next ==
    \/ Request
    \/ Create
    \/ Collect
    \/ Drop
    \/ Record
    \/ Observe
    \/ Shutdown

Spec == Init /\ [][Next]_vars

\* One creation call on a fresh meter, over the whole input space of the
\* validator.
InitValidate == Constructed /\ args \in ValidateArgs /\ Alone

NextValidate == Create

SpecValidate == InitValidate /\ [][NextValidate]_vars

\* Creation calls on one shared meter from several threads, one call per
\* thread, interleaved in every way, with collection passes in between.
InitConcurrent ==
    /\ Constructed
    /\ args = NoArgs
    /\ threads \in [Threads -> {Calling(a) : a \in ConcurrentArgs}]
    /\ err = NoValue
    /\ log_error = NoLogError

NextConcurrent ==
    \/ \E t \in Threads : thread_validate_instrument_config(t)
    \/ \E t \in Threads : thread_measures(t)
    \/ \E t \in Threads : thread_register_callback(t)
    \/ \E t \in Threads : thread_return(t)
    \/ Collect

SpecConcurrent == InitConcurrent /\ [][NextConcurrent]_vars

\* One conversion into LogError, over the values of every source type.
InitLogError ==
    /\ Constructed
    /\ args = NoArgs
    /\ threads = <<>>
    /\ err \in LogErrorSources
    /\ log_error = NoLogError

NextLogError ==
    \/ From_ExportError
    \/ From_String
    \/ From_static_str
    \/ From_PoisonError
    \/ From_Box_dyn_Error

SpecLogError == InitLogError /\ [][NextLogError]_vars

-----------------------------------------------------------------------------
(* Properties                                                              *)

\* The length of a string in characters.
chars_count(s) == Len(s)

\* The name rules as the specification states them, lengths in characters.
NameAlpha == {"a", "Z"}
NameAlnum == {"a", "Z", "7"}
NamePunct == {"_", ".", "-", "/"}

\* ^[A-Za-z][A-Za-z0-9_.\-/]{0,254}$
MatchesNamePattern(name) ==
    /\ Len(name) >= 1
    /\ Len(name) <= 255
    /\ name[1] \in NameAlpha
    /\ \A i \in 2..Len(name) : name[i] \in NameAlnum \cup NamePunct

\* The diagnostic of the first violated name rule, "" when none is violated.
FirstViolatedNameRule(name) ==
    IF Len(name) = 0 THEN INSTRUMENT_NAME_EMPTY
    ELSE IF chars_count(name) > 255 THEN INSTRUMENT_NAME_LENGTH
    ELSE IF name[1] \notin NameAlpha THEN INSTRUMENT_NAME_FIRST_ALPHABETIC
    ELSE IF \E i \in DOMAIN name : name[i] \notin NameAlnum \cup NamePunct
      THEN INSTRUMENT_NAME_INVALID_CHAR
    ELSE ""

\* The unit rules as the specification states them.
UnitWellFormed(unit) ==
    \/ ~unit.some
    \/ /\ chars_count(unit.val) <= 63
       /\ \A i \in DOMAIN unit.val : unit.val[i] \notin {"U+00E9", "U+9508"}

IsCreation(r) == r.op \in CreationOps
ResolverFailed == history # <<>> /\ history[Len(history)].outcome = "failed"

\* C1: under strict policy, with an absent or valid unit and a resolver that
\* returns successfully, a creation operation of any kind and numeric type
\* returns Ok exactly when the name matches ^[A-Za-z][A-Za-z0-9_.\-/]{0,254}$
\* and a validation error otherwise; 255 "a" is accepted, 256 "a" is rejected
\* with the length diagnostic.
C1_StrictNameOutcome ==
    (/\ IsCreation(ret)
     /\ validation_policy = Strict
     /\ UnitWellFormed(ret.args.unit)
     /\ ~ResolverFailed)
    => /\ ret.result.ok <=> MatchesNamePattern(ret.args.name)
       /\ ~ret.result.ok =>
             ret.result.err.variant = "InvalidInstrumentConfiguration"
       /\ ret.args.name = Pad("a", 255) => ret.result.ok
       /\ ret.args.name = Pad("a", 256) =>
             /\ ~ret.result.ok
             /\ ret.result.err = InvalidInstrumentConfiguration(INSTRUMENT_NAME_LENGTH)

\* A name of 255 "a" was accepted by an observable creation under strict policy.
C1_Witness ==
    /\ ret.op = "f64_observable_gauge"
    /\ validation_policy = Strict
    /\ ret.args.name = Pad("a", 255)
    /\ ret.args.unit = None
    /\ ret.result.ok

\* The diagnostic a creation call produced: returned under strict policy,
\* handed to the error handler otherwise; "" when there is none.
Diagnostic ==
    IF validation_policy = Strict
      THEN IF ret.result.ok THEN "" ELSE ret.result.err.msg
      ELSE IF handled = <<>> THEN "" ELSE handled[1].msg

\* C2: a name that violates a name rule fails validation with the diagnostic
\* of the first violated rule in the order non-empty, at most 255 characters,
\* first character ASCII alphabetic, every character allowed; the length is
\* counted in characters.
C2_FirstViolatedRuleInCharacters ==
    (IsCreation(ret) /\ FirstViolatedNameRule(ret.args.name) # "")
    => Diagnostic = FirstViolatedNameRule(ret.args.name)

\* Steps of the operations, recognised from the state before and after.
CreationStep == args.shape # "none" /\ args'.shape = "none"
CollectStep == passes' = passes + 1
ShutdownStep == ~shutdown /\ shutdown'
HandleCallStep == nrecords' = nrecords + 1

Last(q) == q[Len(q)]
NameOrUnitInvalid(a) ==
    FirstViolatedNameRule(a.name) # "" \/ ~UnitWellFormed(a.unit)

\* C3: under report-and-continue policy a creation call with an invalid name
\* and/or unit still consults the resolver and returns a usable handle, and
\* hands exactly one diagnostic to the error handler (also when both name and
\* unit are invalid); a call with valid name and unit hands none.
C3_Step ==
    (CreationStep /\ validation_policy = HandleGlobalAndIgnore)
    => /\ Len(lookups') = 1
       /\ NameOrUnitInvalid(args) =>
             /\ ret'.result.ok
             /\ Len(handled') = Len(handled) + 1
       /\ ~NameOrUnitInvalid(args) => handled' = handled

\* C3: every step of every behaviour satisfies C3_Step.
C3_ReportAndContinue == [][C3_Step]_vars

\* The same, for the calls whose resolver returns a sink list.
C3_ReportAndContinueWhenResolved ==
    [][(CreationStep /\ Last(history').outcome = "failed") \/ C3_Step]_vars

\* C4: under strict policy a creation call whose name or unit fails
\* validation returns the validation error and has no other effect: no
\* resolver is consulted, no callback is registered, no diagnostic is handed
\* to the error handler.
C4_Step ==
    (CreationStep /\ validation_policy = Strict /\ NameOrUnitInvalid(args))
    => /\ ~ret'.result.ok
       /\ ret'.result.err.variant = "InvalidInstrumentConfiguration"
       /\ lookups' = <<>>
       /\ callbacks' = callbacks
       /\ handled' = handled
       /\ UNCHANGED <<observables, handles, recorded, validation_policy, scope>>

\* C4: every step of every behaviour satisfies C4_Step.
C4_StrictRejectionHasNoEffect == [][C4_Step]_vars

\* An observable creation with callbacks was rejected under strict policy.
C4_Witness ==
    /\ validation_policy = Strict
    /\ ret.op \in ObservableOps
    /\ ret.args.callbacks # <<>>
    /\ NameOrUnitInvalid(ret.args)
    /\ ~ret.result.ok
    /\ lookups = <<>>
    /\ handled = <<>>

\* C5: under report-and-continue policy no creation operation returns an
\* error, whatever the resolver does; an error result is only possible under
\* strict policy and is then a validation error.
C5_NoErrorUnlessStrict ==
    (IsCreation(ret) /\ ~ret.result.ok)
    => /\ validation_policy = Strict
       /\ ret.result.err.variant = "InvalidInstrumentConfiguration"

\* The closures an observable creation call number id registers for cbs.
ClosuresOf(id, cbs) == [i \in 1..Len(cbs) |-> Closure(id, cbs[i])]

\* The values that the closures of list hand to sink s in one pass, in order,
\* each closure bound to the sink list resolved for its own instrument.
RECURSIVE PassValues(_, _)
PassValues(list, s) ==
    IF list = <<>> THEN <<>>
    ELSE (IF \E k \in DOMAIN history[Head(list).inst].measures :
                  history[Head(list).inst].measures[k] = s
            THEN <<Head(list).callback>> ELSE <<>>)
         \o PassValues(Tail(list), s)

ResolvedNonEmpty(h) == h.outcome = "resolved" /\ h.measures # <<>>
ResolvedEmpty(h) == h.outcome = "resolved" /\ h.measures = <<>>

\* C6: an observable creation whose resolver returns a non-empty sink list
\* registers exactly one closure per supplied callback, and on every
\* collection pass each registered closure runs exactly once, handing its
\* observation to every sink resolved for its instrument exactly once and to
\* no other sink.
C6_Step ==
    /\ (CreationStep /\ args.shape = "observable" /\ ResolvedNonEmpty(Last(history')))
       => callbacks' = callbacks \o ClosuresOf(Len(history'), args.callbacks)
    /\ CollectStep
       => /\ DOMAIN callbacks' = DOMAIN callbacks
          /\ \A i \in DOMAIN callbacks :
                callbacks'[i].invoked = callbacks[i].invoked + 1
          /\ \A s \in Sinks :
                recorded'[s] = recorded[s] \o PassValues(callbacks, s)

\* C6: every step of every behaviour satisfies C6_Step.
C6_OneClosurePerCallbackOncePerPass == [][C6_Step]_vars

\* Two passes have run over the closures of two instruments with different
\* sink lists.
C6_Witness ==
    /\ passes = 2
    /\ \E i, j \in DOMAIN callbacks :
          /\ callbacks[i].inst # callbacks[j].inst
          /\ history[callbacks[i].inst].measures = <<1>>
          /\ history[callbacks[j].inst].measures = <<2>>
          /\ callbacks[i].invoked = 2
          /\ callbacks[j].invoked >= 1
    /\ recorded[1] # <<>>
    /\ recorded[2] # <<>>

\* C7: an observable creation whose resolver returns an empty sink list
\* returns the no-op handle and registers none of the supplied callbacks, so
\* no closure of such a call is ever in the scheduler's list, whatever passes
\* follow.
C7_Step ==
    /\ (CreationStep /\ args.shape = "observable" /\ ResolvedEmpty(Last(history')))
       => /\ ret'.result = Ok(NoopAsyncInstrument(Len(history')))
          /\ callbacks' = callbacks
          /\ observables' = observables
    /\ \A i \in DOMAIN callbacks' :
          ~ResolvedEmpty(history'[callbacks'[i].inst])
    /\ (CollectStep /\ callbacks = <<>>) => recorded' = recorded

\* C7: every step of every behaviour satisfies C7_Step.
C7_EmptySinkListRegistersNothing == [][C7_Step]_vars

\* A pass has run after an observable creation with callbacks and an empty
\* sink list; nothing is registered and no sink received anything.
C7_Witness ==
    /\ ret.op = "collect"
    /\ \E k \in DOMAIN history :
          /\ history[k].observable
          /\ history[k].callbacks # <<>>
          /\ ResolvedEmpty(history[k])
    /\ callbacks = <<>>
    /\ \A s \in Sinks : recorded[s] = <<>>

Held(id) == \E h \in handles : h.id = id

\* C8: a registered closure stays registered independently of the returned
\* handle: no operation but scheduler shutdown removes it, it stays bound to
\* the sinks resolved for its instrument, and every pass invokes it once and
\* delivers to those sinks, also after the handle was dropped.
C8_Step ==
    /\ ~ShutdownStep
       => /\ Len(callbacks') >= Len(callbacks)
          /\ \A i \in DOMAIN callbacks :
                /\ callbacks'[i].inst = callbacks[i].inst
                /\ callbacks'[i].callback = callbacks[i].callback
                /\ callbacks'[i].invoked >= callbacks[i].invoked
    /\ \A i \in DOMAIN callbacks' :
          /\ observables'[callbacks'[i].inst].strong >= 1
          /\ observables'[callbacks'[i].inst].measures
                = history'[callbacks'[i].inst].measures
    /\ CollectStep
       => \A i \in DOMAIN callbacks :
             /\ callbacks'[i].invoked = callbacks[i].invoked + 1
             /\ \A k \in DOMAIN history[callbacks[i].inst].measures :
                   LET s == history[callbacks[i].inst].measures[k]
                   IN  /\ Len(recorded'[s]) > Len(recorded[s])
                       /\ \E n \in DOMAIN recorded'[s] :
                             /\ n > Len(recorded[s])
                             /\ recorded'[s][n] = callbacks[i].callback

\* C8: every step of every behaviour satisfies C8_Step.
C8_RegistrationOutlivesHandle == [][C8_Step]_vars

\* A pass has just invoked, for the first time, a closure whose instrument
\* handle the caller had already dropped, and its sinks received the value.
C8_Witness ==
    /\ ret.op = "collect"
    /\ \E i \in DOMAIN callbacks :
          /\ ~Held(callbacks[i].inst)
          /\ callbacks[i].invoked = 1
          /\ \A k \in DOMAIN history[callbacks[i].inst].measures :
                recorded[history[callbacks[i].inst].measures[k]] # <<>>

\* C9: a creation call invokes no callback and hands no value to any sink;
\* closures are invoked only by a collection pass.
C9_Step ==
    /\ CreationStep
       => /\ recorded' = recorded
          /\ \A i \in DOMAIN callbacks' :
                callbacks'[i].invoked
                    = IF i \in DOMAIN callbacks THEN callbacks[i].invoked ELSE 0
    /\ ~CollectStep
       => \A i \in DOMAIN callbacks' \cap DOMAIN callbacks :
             callbacks'[i].invoked = callbacks[i].invoked
    /\ ~(CollectStep \/ HandleCallStep) => recorded' = recorded

\* C9: every step of every behaviour satisfies C9_Step.
C9_CallbacksRunAtCollectionOnly == [][C9_Step]_vars

\* An observable creation with callbacks has returned its handle and no sink
\* has received anything.
C9_Witness ==
    /\ ret.op \in ObservableOps
    /\ ret.result.ok
    /\ ret.result.val.type = "Observable"
    /\ Len(ret.args.callbacks) = 2
    /\ Len(callbacks) = 2
    /\ \A s \in Sinks : recorded[s] = <<>>

\* The handle of id, among those the caller holds.
HandleOf(id) == CHOOSE h \in handles : h.id = id

\* C10: when the resolver returns an empty sink list a synchronous creation
\* still returns Ok with an instrument handle, and every record on that
\* handle, like every observe on a no-op observable handle, does not fail,
\* changes no sink and hands no diagnostic to the error handler.
C10_Step ==
    /\ (CreationStep /\ args.shape = "sync" /\ ResolvedEmpty(Last(history')))
       => /\ ret'.result = Ok(ResolvedMeasures(Len(history'), <<>>))
          /\ ret'.result.val \in handles'
    /\ (/\ HandleCallStep
        /\ \/ HandleOf(ret'.on).type = "NoopAsyncInstrument"
           \/ /\ HandleOf(ret'.on).type = "ResolvedMeasures"
              /\ ResolvedEmpty(history[ret'.on]))
       => /\ ret'.result.ok
          /\ recorded' = recorded
          /\ handled' = handled

\* C10: every step of every behaviour satisfies C10_Step.
C10_EmptySinkListIsSilentNoOp == [][C10_Step]_vars

\* A record was made on a synchronous handle created with an empty sink list.
C10_Witness ==
    /\ ret.op = "record"
    /\ Held(ret.on)
    /\ HandleOf(ret.on).type = "ResolvedMeasures"
    /\ ~history[ret.on].observable
    /\ ResolvedEmpty(history[ret.on])
    /\ \A s \in Sinks : recorded[s] = <<>>

\* C11: with a name that matches the pattern and a resolver that returns
\* successfully, a creation operation of any kind and numeric type produces no
\* diagnostic exactly when the unit is absent, empty, or at most 63 characters
\* long and all ASCII; under strict policy it then returns Ok and otherwise a
\* validation error; a unit of 63 "a" is accepted and a unit of 64 "a" gets the
\* unit-length diagnostic.
C11_UnitOutcome ==
    (/\ IsCreation(ret)
     /\ MatchesNamePattern(ret.args.name)
     /\ ~ResolverFailed)
    => /\ Diagnostic = "" <=> UnitWellFormed(ret.args.unit)
       /\ validation_policy = Strict =>
             /\ ret.result.ok <=> UnitWellFormed(ret.args.unit)
             /\ ~ret.result.ok =>
                   ret.result.err.variant = "InvalidInstrumentConfiguration"
       /\ ret.args.unit = Some(Pad("a", 63)) => Diagnostic = ""
       /\ ret.args.unit = Some(Pad("a", 64)) => Diagnostic = INSTRUMENT_UNIT_LENGTH

\* A unit of 63 "a" was accepted by a synchronous creation under strict policy.
C11_Witness ==
    /\ ret.op = "u64_histogram"
    /\ validation_policy = Strict
    /\ ret.args.name = <<"a">>
    /\ ret.args.unit = Some(Pad("a", 63))
    /\ ret.result.ok

\* C12: with a name that matches the pattern, a unit that contains a non-ASCII
\* character gets the unit-character diagnostic, whatever its length in bytes.
C12_NonAsciiUnitGetsCharacterDiagnostic ==
    (/\ IsCreation(ret)
     /\ MatchesNamePattern(ret.args.name)
     /\ ret.args.unit.some
     /\ chars_count(ret.args.unit.val) <= 63
     /\ \E i \in DOMAIN ret.args.unit.val :
            ret.args.unit.val[i] \in {"U+00E9", "U+9508"})
    => Diagnostic = INSTRUMENT_UNIT_INVALID_CHAR

Registers(t) ==
    /\ threads[t].args.shape = "observable"
    /\ threads[t].result.ok
    /\ threads[t].ms # <<>>

AllReturned == \A t \in Threads : threads[t].pc = "returned"

\* The entries of the scheduler's callback list for callback k of call t.
EntriesOf(t, k) ==
    {i \in DOMAIN callbacks : callbacks[i].inst = t /\ callbacks[i].callback = k}

\* The callback list holds one entry for each callback of each call that
\* entered the registration loop and nothing else, and the observable an
\* entry is bound to holds the sinks resolved for its own call.
ExactlyTheSuppliedCallbacks ==
    /\ \A t \in Threads : \A j \in DOMAIN threads[t].args.callbacks :
          Cardinality(EntriesOf(t, threads[t].args.callbacks[j]))
             = IF Registers(t) THEN 1 ELSE 0
    /\ \A i \in DOMAIN callbacks :
          /\ callbacks[i].inst \in Threads
          /\ \E j \in DOMAIN threads[callbacks[i].inst].args.callbacks :
                threads[callbacks[i].inst].args.callbacks[j] = callbacks[i].callback
    /\ \A t \in Threads :
          Registers(t) => observables[t].measures = threads[t].ms

\* The values a pass over list hands to sink s, when every closure observes
\* into the sinks resolved for the call that supplied its callback.
RECURSIVE OwnCallValues(_, _)
OwnCallValues(list, s) ==
    IF list = <<>> THEN <<>>
    ELSE (IF \E t \in Threads :
                  /\ \E j \in DOMAIN threads[t].args.callbacks :
                        threads[t].args.callbacks[j] = Head(list).callback
                  /\ Head(list).inst = t
                  /\ \E k \in DOMAIN threads[t].ms : threads[t].ms[k] = s
            THEN <<Head(list).callback>> ELSE <<>>)
         \o OwnCallValues(Tail(list), s)

\* C14: with creation calls running concurrently on one shared meter, once
\* every call has returned the scheduler's callback list holds exactly one
\* entry for each callback supplied to an observable call whose resolved sink
\* list was non-empty and no other entry; at every collection pass the
\* observation of a registered callback reaches the sinks resolved for its
\* own call and no other sink; and no step changes the meter's scope or
\* validation policy.
C14_Step ==
    /\ AllReturned' => ExactlyTheSuppliedCallbacks'
    /\ CollectStep
       => \A s \in Sinks : recorded'[s] = recorded[s] \o OwnCallValues(callbacks, s)
    /\ scope' = scope
    /\ validation_policy' = validation_policy

\* C14: every step of every behaviour of the concurrent callers satisfies
\* C14_Step.
C14_ConcurrentCallsRegisterExactly == [][C14_Step]_vars

\* Two calls with two callbacks each and different sink lists have returned,
\* their registrations interleaved, and a pass has run since.
C14_Witness ==
    /\ AllReturned
    /\ Len(callbacks) = 4
    /\ callbacks[1].inst # callbacks[2].inst
    /\ callbacks[3].inst = callbacks[2].inst
    /\ threads[1].ms = <<1>>
    /\ threads[2].ms = <<2>>
    /\ callbacks[4].invoked = 1
    /\ recorded[1] # <<>>
    /\ recorded[2] # <<>>

\* The numeric type and the kind each creation operation is named after.
NumericTypeOf(op) ==
    CASE op \in {"u64_counter", "u64_observable_counter", "u64_gauge",
                 "u64_observable_gauge", "u64_histogram"} -> "u64"
      [] op \in {"i64_up_down_counter", "i64_observable_up_down_counter",
                 "i64_gauge", "i64_observable_gauge"} -> "i64"
      [] op \in {"f64_counter", "f64_observable_counter", "f64_up_down_counter",
                 "f64_observable_up_down_counter", "f64_gauge",
                 "f64_observable_gauge", "f64_histogram"} -> "f64"

KindOf(op) ==
    CASE op \in {"u64_counter", "f64_counter"} -> "Counter"
      [] op \in {"u64_observable_counter", "f64_observable_counter"}
            -> "ObservableCounter"
      [] op \in {"i64_up_down_counter", "f64_up_down_counter"} -> "UpDownCounter"
      [] op \in {"i64_observable_up_down_counter", "f64_observable_up_down_counter"}
            -> "ObservableUpDownCounter"
      [] op \in {"u64_gauge", "i64_gauge", "f64_gauge"} -> "Gauge"
      [] op \in {"u64_observable_gauge", "i64_observable_gauge",
                 "f64_observable_gauge"} -> "ObservableGauge"
      [] op \in {"u64_histogram", "f64_histogram"} -> "Histogram"

\* The value given for an optional text, the empty string when it is absent.
GivenOrEmpty(o) == IF o = [some |-> FALSE] THEN <<>> ELSE o.val

\* C15: a creation operation that gets past validation consults one resolver
\* once, the resolver of its own numeric type, with a descriptor whose kind is
\* the operation's kind, whose name is the given name, whose description and
\* unit are the given values with an absent one replaced by the empty string,
\* and whose scope is the meter's scope; and a synchronous operation leaves
\* the scheduler's callback list and the observables as they were.
C15_Step ==
    CreationStep
    => /\ Last(history').outcome # "rejected"
          => lookups' = << [resolver |-> NumericTypeOf(ret'.op),
                            inst |-> [name |-> args.name,
                                      description |-> GivenOrEmpty(args.description),
                                      unit |-> GivenOrEmpty(args.unit),
                                      kind |-> [some |-> TRUE, val |-> KindOf(ret'.op)],
                                      scope |-> scope']] >>
       /\ ret'.op \in SyncOps
          => /\ args.shape = "sync"
             /\ callbacks' = callbacks
             /\ observables' = observables

\* C15: every step of every behaviour satisfies C15_Step.
C15_OneConsultationWithOwnDescriptor == [][C15_Step]_vars

\* A synchronous creation with a description and no unit has consulted the
\* i64 resolver while closures of an earlier call were registered.
C15_Witness ==
    /\ ret.op = "i64_gauge"
    /\ ret.args.description = [some |-> TRUE, val |-> <<"Z">>]
    /\ ret.args.unit = [some |-> FALSE]
    /\ ret.result.ok
    /\ Len(lookups) = 1
    /\ lookups[1].resolver = "i64"
    /\ lookups[1].inst.unit = <<>>
    /\ callbacks # <<>>

====
